---- MODULE Spec2Model ----
(***************************************************************************)
(* PyScpiInstrument (src/PyScpiInstrument.py): a Python wrapper that       *)
(* forwards SCPI operations to a GenericScpiInstrument driver object       *)
(* (self._io).  The wrapper's state is its five host properties and the    *)
(* driver object; every method is one action.  The driver is external to   *)
(* the repository: each request handed to it either returns or raises, and *)
(* the action draws that outcome with \E.  A driver that holds no          *)
(* connection answers every I/O request by raising "NotConnected".         *)
(*                                                                         *)
(* Exceptions follow Python 3: an exception raised while an except block   *)
(* is handling another one carries the handled one as its __context__;     *)
(* "raise e" re-raises the handled object itself.                          *)
(***************************************************************************)
EXTENDS Integers, Sequences, FiniteSets, TLC

VARIABLES
    visa_address,               \* property "visa_address"              (line 46)
    io_timeout,                 \* property "io_timeout"                (line 51)
    query_error_after_command,  \* property "query_error_after_command" (line 57)
    send_clear_on_connect,      \* property "send_clear_on_connect"     (line 63)
    verbose_logging_enabled,    \* property "verbose_logging_enabled"   (line 71)
    io,                         \* self._io, the driver object          (line 43)
    last                        \* what the latest method call did and returned

vars == <<visa_address, io_timeout, query_error_after_command,
          send_clear_on_connect, verbose_logging_enabled, io, last>>

props == <<visa_address, io_timeout, query_error_after_command,
           send_clear_on_connect, verbose_logging_enabled>>

----------------------------------------------------------------------------
(* Bounds and input domains *)

\* longest error list one drain of the instrument's error queue returns
MaxErrors == 2

DefaultAddress == "TCPIP0::127.0.0.1::hislip0::INSTR"
DefaultTimeout == 5000

Name == "PySCPI"

Addresses == {DefaultAddress, "TCPIP0::10.0.0.2::inst0::INSTR"}
Timeouts == {DefaultTimeout, 1000}

\* datatype tags a caller may pass; 'b', 'B', 'f', 'd' are the recognised ones
Datatypes == {"b", "B", "f", "d", "z", "F"}

\* ScpiError objects (int Code, string Message) the driver's QueryErrors returns
ErrorRecords ==
    { [Code |-> -113, Message |-> "Undefined header"],
      [Code |-> -222, Message |-> "Data out of range"] }

ErrorLists == UNION { [1..n -> ErrorRecords] : n \in 0..MaxErrors }

\* failures the driver raises on a connected session
DriverFailures == {"TimeoutError", "IoError"}

----------------------------------------------------------------------------
(* Exceptions *)

NoExc == [type |-> "None", at |-> "", msg |-> "", ctxType |-> "None", ctxAt |-> ""]

\* an exception raised inside the driver by request `at`
DriverExc(type, at) ==
    [type |-> type, at |-> at, msg |-> type, ctxType |-> "None", ctxAt |-> ""]

\* Exception(msg) / TypeError(msg) constructed by the wrapper itself
NewExc(type, msg) ==
    [type |-> type, at |-> "wrapper", msg |-> msg, ctxType |-> "None", ctxAt |-> ""]

\* `new` raised while the except block is handling `handled`
DuringHandling(new, handled) ==
    [new EXCEPT !.ctxType = handled.type, !.ctxAt = handled.at]

----------------------------------------------------------------------------
(* The driver: outcomes of one request *)

Returned == [ok |-> TRUE, exc |-> NoExc, scpi_errors |-> <<>>]
Raised(type, at) == [ok |-> FALSE, exc |-> DriverExc(type, at), scpi_errors |-> <<>>]

\* self._io.<at>(...) for an I/O request
DriverOutcomes(connected, at) ==
    IF connected
    THEN {Returned} \cup { Raised(t, at) : t \in DriverFailures }
    ELSE { Raised("NotConnected", at) }

\* self._io.QueryErrors(suppress_log_messages, max_errors)
DrainOutcomes(connected) ==
    IF connected
    THEN { [ok |-> TRUE, exc |-> NoExc, scpi_errors |-> s] : s \in ErrorLists }
         \cup { Raised(t, "QueryErrors") : t \in DriverFailures }
    ELSE { Raised("NotConnected", "QueryErrors") }

\* the drain an except block asks for: there is one only after a failure
DrainAfter(primary, connected) ==
    IF primary.ok THEN {Returned} ELSE DrainOutcomes(connected)

----------------------------------------------------------------------------
(* QueryErrors: formatting of the drained list (line 167) *)

\* "{} - {}".format(err.Code, err.Message)
FormatError(err) == ToString(err.Code) \o " - " \o err.Message

\* a join that writes the separator after every item
RECURSIVE JoinTrailingFrom(_, _, _, _)
JoinTrailingFrom(sep, items, i, acc) ==
    IF i > Len(items) THEN acc
    ELSE JoinTrailingFrom(sep, items, i + 1, acc \o items[i] \o sep)

Join_Trailing(sep, items) == JoinTrailingFrom(sep, items, 1, "")

\* sep.join(items): the separator goes between consecutive items only
RECURSIVE JoinFrom(_, _, _, _)
JoinFrom(sep, items, i, acc) ==
    IF i > Len(items) THEN acc
    ELSE JoinFrom(sep, items, i + 1,
                  IF i = 1 THEN items[i] ELSE acc \o sep \o items[i])

\* str.join (line 167)
Join(sep, items) == JoinFrom(sep, items, 1, "")

\* ','.join(["{} - {}".format(err.Code, err.Message) for err in scpi_errors])
FormatErrors(scpi_errors) ==
    Join(",", [i \in 1..Len(scpi_errors) |-> FormatError(scpi_errors[i])])

----------------------------------------------------------------------------
(* What one method call did: the requests it handed to the driver, in      *)
(* order (calls), how it ended (outcome: "return" or "raise"), the         *)
(* exception the caller receives (raised), the value returned (ret), the   *)
(* exception of the first failing driver request (primary), whether a      *)
(* drain returned (drained) or raised (drainExc), and the drained list and *)
(* its formatted string.                                                   *)

Quiet ==
    [calls |-> <<>>, outcome |-> "return", raised |-> NoExc, ret |-> "None",
     primary |-> NoExc, drained |-> FALSE, drainExc |-> NoExc,
     scpi_errors |-> <<>>, errors |-> ""]

\* QueryErrors (lines 157-167): one drain request; its exception propagates
QueryErrorsCall(drain) ==
    IF drain.ok
    THEN [Quiet EXCEPT !.calls = <<"QueryErrors">>,
                       !.drained = TRUE,
                       !.scpi_errors = drain.scpi_errors,
                       !.errors = FormatErrors(drain.scpi_errors),
                       !.ret = "str"]
    ELSE [Quiet EXCEPT !.calls = <<"QueryErrors">>,
                       !.outcome = "raise",
                       !.raised = drain.exc,
                       !.primary = drain.exc]

\* a ScpiQuery whose handler drains but always re-raises the original failure
ScpiQueryCall_ReraiseOnly(primary, drain) ==
    IF primary.ok
    THEN [Quiet EXCEPT !.calls = <<"ScpiQuery">>, !.ret = "response"]
    ELSE LET e == primary.exc
             q == QueryErrorsCall(drain)
             r == [q EXCEPT !.calls = <<"ScpiQuery">> \o q.calls,
                            !.outcome = "raise",
                            !.primary = e,
                            !.ret = "None"]
         IN  IF q.outcome = "raise"
             THEN [r EXCEPT !.raised = DuringHandling(q.raised, e),
                            !.drainExc = q.raised]
             ELSE [r EXCEPT !.raised = e]

\* a ScpiQuery that raises the instrument errors with the original failure
\* detached from them
ScpiQueryCall_Detached(primary, drain) ==
    IF primary.ok
    THEN [Quiet EXCEPT !.calls = <<"ScpiQuery">>, !.ret = "response"]
    ELSE LET e == primary.exc
             q == QueryErrorsCall(drain)
             r == [q EXCEPT !.calls = <<"ScpiQuery">> \o q.calls,
                            !.outcome = "raise",
                            !.primary = e,
                            !.ret = "None"]
         IN  IF q.outcome = "raise"
             THEN [r EXCEPT !.raised = DuringHandling(q.raised, e),
                            !.drainExc = q.raised]
             ELSE IF q.errors # ""
             THEN [r EXCEPT !.raised =
                      NewExc("Exception", Name \o " errors: " \o q.errors)]
             ELSE [r EXCEPT !.raised = e]

\* ScpiQuery (lines 90-103)
ScpiQueryCall(primary, drain) ==
    IF primary.ok
    THEN [Quiet EXCEPT !.calls = <<"ScpiQuery">>, !.ret = "response"]
    ELSE LET e == primary.exc
             q == QueryErrorsCall(drain)
             r == [q EXCEPT !.calls = <<"ScpiQuery">> \o q.calls,
                            !.outcome = "raise",
                            !.primary = e,
                            !.ret = "None"]
         IN  IF q.outcome = "raise"
             THEN [r EXCEPT !.raised = DuringHandling(q.raised, e),
                            !.drainExc = q.raised]
             ELSE IF q.errors # ""
             THEN [r EXCEPT !.raised =
                      DuringHandling(
                          NewExc("Exception", Name \o " errors: " \o q.errors), e)]
             ELSE [r EXCEPT !.raised = e]

\* a ScpiCommand that sends the command again after a failure and its drain
ScpiCommandCall_Retry(primary, drain) ==
    IF primary.ok
    THEN [Quiet EXCEPT !.calls = <<"ScpiCommand">>]
    ELSE LET e == primary.exc
             q == QueryErrorsCall(drain)
             r == [q EXCEPT !.calls = <<"ScpiCommand">> \o q.calls \o <<"ScpiCommand">>,
                            !.outcome = "raise",
                            !.primary = e,
                            !.ret = "None"]
         IN  IF q.outcome = "raise"
             THEN [r EXCEPT !.raised = DuringHandling(q.raised, e),
                            !.drainExc = q.raised]
             ELSE IF q.errors # ""
             THEN [r EXCEPT !.raised =
                      DuringHandling(
                          NewExc("Exception", Name \o " errors: " \o q.errors), e)]
             ELSE [r EXCEPT !.raised = e]

\* ScpiCommand (lines 105-117)
ScpiCommandCall(primary, drain) ==
    IF primary.ok
    THEN [Quiet EXCEPT !.calls = <<"ScpiCommand">>]
    ELSE LET e == primary.exc
             q == QueryErrorsCall(drain)
             r == [q EXCEPT !.calls = <<"ScpiCommand">> \o q.calls,
                            !.outcome = "raise",
                            !.primary = e,
                            !.ret = "None"]
         IN  IF q.outcome = "raise"
             THEN [r EXCEPT !.raised = DuringHandling(q.raised, e),
                            !.drainExc = q.raised]
             ELSE IF q.errors # ""
             THEN [r EXCEPT !.raised =
                      DuringHandling(
                          NewExc("Exception", Name \o " errors: " \o q.errors), e)]
             ELSE [r EXCEPT !.raised = e]

\* a driver request forwarded with no handler around it
Forwarded(request, primary, ret) ==
    IF primary.ok
    THEN [Quiet EXCEPT !.calls = <<request>>, !.ret = ret]
    ELSE [Quiet EXCEPT !.calls = <<request>>,
                       !.outcome = "raise",
                       !.raised = primary.exc,
                       !.primary = primary.exc]

\* the driver request QueryBinaryValues selects for a datatype tag; "" if none
BlockRequest(datatype) ==
    IF datatype = "b" \/ datatype = "B" THEN "ScpiQueryBlock"
    ELSE IF datatype = "f" THEN "ScpiQueryBlock[Single]"
    ELSE IF datatype = "d" THEN "ScpiQueryBlock[Double]"
    ELSE ""

\* a QueryBinaryValues that sends the query before it looks at the tag
QueryBinaryValuesCall_QueryFirst(datatype, primary) ==
    IF datatype = "b" \/ datatype = "B"
    THEN Forwarded("ScpiQueryBlock", primary, "bytes")
    ELSE IF datatype = "f"
    THEN Forwarded("ScpiQueryBlock[Single]", primary, "list")
    ELSE IF datatype = "d"
    THEN Forwarded("ScpiQueryBlock[Double]", primary, "list")
    ELSE [Quiet EXCEPT !.calls = <<"ScpiQueryBlock">>,
                       !.outcome = "raise",
                       !.raised = NewExc("TypeError", "Invalid data type selected.")]

\* QueryBinaryValues (lines 119-133); primary is the outcome of the request
\* when one is made
QueryBinaryValuesCall(datatype, primary) ==
    IF datatype = "b" \/ datatype = "B"
    THEN Forwarded("ScpiQueryBlock", primary, "bytes")
    ELSE IF datatype = "f"
    THEN Forwarded("ScpiQueryBlock[Single]", primary, "list")
    ELSE IF datatype = "d"
    THEN Forwarded("ScpiQueryBlock[Double]", primary, "list")
    ELSE [Quiet EXCEPT !.outcome = "raise",
                       !.raised = NewExc("TypeError", "Invalid data type selected.")]

\* WriteBinaryValues (lines 135-142)
WriteBinaryValuesCall(primary) == Forwarded("ScpiIEEEBlockCommand", primary, "None")

\* WaitForOperationComplete (lines 169-175)
WaitForOperationCompleteCall(primary) ==
    Forwarded("WaitForOperationComplete", primary, "None")

\* Reset (lines 177-183)
ResetCall(primary) == Forwarded("Reset", primary, "None")

----------------------------------------------------------------------------
(* State machine *)

\* the record kept in `last`: a call's result under the name of the method,
\* its datatype argument (QueryBinaryValues), whether the driver was
\* connected when the method was entered, and, for Close, whether the method
\* called just before it was Close too
Done(op, datatype, r) ==
    [op |-> op, datatype |-> datatype,
     preConnected |-> io.IsConnected,
     prevWasClose |-> (op = "Close" /\ last.op = "Close"),
     calls |-> r.calls, outcome |-> r.outcome, raised |-> r.raised,
     ret |-> r.ret, primary |-> r.primary, drained |-> r.drained,
     drainExc |-> r.drainExc, scpi_errors |-> r.scpi_errors,
     errors |-> r.errors]

\* __init__ (lines 36-75): a fresh driver object and the property defaults
Init ==
    /\ visa_address = DefaultAddress
    /\ io_timeout = DefaultTimeout
    /\ query_error_after_command = FALSE
    /\ send_clear_on_connect = TRUE
    /\ verbose_logging_enabled = TRUE
    /\ io = [VisaAddress |-> "", IoTimeout |-> 0,
             QueryErrorAfterCommand |-> FALSE, SendClearOnConnect |-> FALSE,
             VerboseLoggingEnabled |-> FALSE, IsConnected |-> FALSE]
    /\ last = [op |-> "none", datatype |-> "", preConnected |-> FALSE,
               prevWasClose |-> FALSE,
               calls |-> <<>>, outcome |-> "return", raised |-> NoExc,
               ret |-> "None", primary |-> NoExc, drained |-> FALSE,
               drainExc |-> NoExc, scpi_errors |-> <<>>, errors |-> ""]

\* the host assigns a property registered by AddProperty
SetVisaAddress ==
    /\ \E a \in Addresses : visa_address' = a
    /\ UNCHANGED <<io_timeout, query_error_after_command, send_clear_on_connect,
                   verbose_logging_enabled, io, last>>

SetIoTimeout ==
    /\ \E t \in Timeouts : io_timeout' = t
    /\ UNCHANGED <<visa_address, query_error_after_command, send_clear_on_connect,
                   verbose_logging_enabled, io, last>>

SetQueryErrorAfterCommand ==
    /\ \E b \in BOOLEAN : query_error_after_command' = b
    /\ UNCHANGED <<visa_address, io_timeout, send_clear_on_connect,
                   verbose_logging_enabled, io, last>>

SetSendClearOnConnect ==
    /\ \E b \in BOOLEAN : send_clear_on_connect' = b
    /\ UNCHANGED <<visa_address, io_timeout, query_error_after_command,
                   verbose_logging_enabled, io, last>>

SetVerboseLoggingEnabled ==
    /\ \E b \in BOOLEAN : verbose_logging_enabled' = b
    /\ UNCHANGED <<visa_address, io_timeout, query_error_after_command,
                   send_clear_on_connect, io, last>>

\* self._io.Open(): connects, or raises; a failed open of a driver that was
\* connected may leave it either way
OpenOutcomes(connected) ==
    { [ok |-> TRUE, exc |-> NoExc, connected |-> TRUE] }
    \cup { [ok |-> FALSE, exc |-> DriverExc("ConnectionError", "Open"), connected |-> c] :
             c \in (IF connected THEN BOOLEAN ELSE {FALSE}) }

\* the driver's settings after lines 78-82 of Open
Configured(d) ==
    [d EXCEPT !.VisaAddress = visa_address,
              !.IoTimeout = io_timeout,
              !.QueryErrorAfterCommand = query_error_after_command,
              !.SendClearOnConnect = send_clear_on_connect,
              !.VerboseLoggingEnabled = verbose_logging_enabled]

\* Open (lines 77-84)
Open ==
    \E o \in OpenOutcomes(io.IsConnected) :
        /\ io' = [Configured(io) EXCEPT !.IsConnected = o.connected]
        /\ last' = Done("Open", "",
                        IF o.ok THEN [Quiet EXCEPT !.calls = <<"Open">>]
                        ELSE [Quiet EXCEPT !.calls = <<"Open">>,
                                           !.outcome = "raise",
                                           !.raised = o.exc,
                                           !.primary = o.exc])
        /\ UNCHANGED props

\* a Close that never reaches the driver
Closed_Forgotten(d) == d

\* the driver after self._io.Close(): disconnected, whatever it was
Closed(d) == [d EXCEPT !.IsConnected = FALSE]

\* Close (lines 86-88)
Close ==
    /\ io' = Closed(io)
    /\ last' = Done("Close", "", [Quiet EXCEPT !.calls = <<"Close">>])
    /\ UNCHANGED props

ScpiQuery ==
    \E primary \in DriverOutcomes(io.IsConnected, "ScpiQuery") :
      \E drain \in DrainAfter(primary, io.IsConnected) :
        /\ last' = Done("ScpiQuery", "", ScpiQueryCall(primary, drain))
        /\ UNCHANGED <<props, io>>

ScpiCommand ==
    \E primary \in DriverOutcomes(io.IsConnected, "ScpiCommand") :
      \E drain \in DrainAfter(primary, io.IsConnected) :
        /\ last' = Done("ScpiCommand", "", ScpiCommandCall(primary, drain))
        /\ UNCHANGED <<props, io>>

QueryBinaryValues ==
    \E datatype \in Datatypes :
      \E primary \in DriverOutcomes(io.IsConnected, BlockRequest(datatype)) :
        /\ last' = Done("QueryBinaryValues", datatype,
                        QueryBinaryValuesCall(datatype, primary))
        /\ UNCHANGED <<props, io>>

WriteBinaryValues ==
    \E primary \in DriverOutcomes(io.IsConnected, "ScpiIEEEBlockCommand") :
        /\ last' = Done("WriteBinaryValues", "", WriteBinaryValuesCall(primary))
        /\ UNCHANGED <<props, io>>

QueryErrors ==
    \E drain \in DrainOutcomes(io.IsConnected) :
        /\ last' = Done("QueryErrors", "", QueryErrorsCall(drain))
        /\ UNCHANGED <<props, io>>

WaitForOperationComplete ==
    \E primary \in DriverOutcomes(io.IsConnected, "WaitForOperationComplete") :
        /\ last' = Done("WaitForOperationComplete", "",
                        WaitForOperationCompleteCall(primary))
        /\ UNCHANGED <<props, io>>

Reset ==
    \E primary \in DriverOutcomes(io.IsConnected, "Reset") :
        /\ last' = Done("Reset", "", ResetCall(primary))
        /\ UNCHANGED <<props, io>>

Next ==
    \/ SetVisaAddress
    \/ SetIoTimeout
    \/ SetQueryErrorAfterCommand
    \/ SetSendClearOnConnect
    \/ SetVerboseLoggingEnabled
    \/ Open
    \/ Close
    \/ ScpiQuery
    \/ ScpiCommand
    \/ QueryBinaryValues
    \/ WriteBinaryValues
    \/ QueryErrors
    \/ WaitForOperationComplete
    \/ Reset

Spec == Init /\ [][Next]_vars

----------------------------------------------------------------------------
(* Properties *)

\* the operations that need an open session
SessionOps ==
    {"ScpiCommand", "ScpiQuery", "QueryBinaryValues", "WriteBinaryValues",
     "WaitForOperationComplete", "Reset"}

HandledOps == {"ScpiQuery", "ScpiCommand"}

BlockRequests == {"ScpiQueryBlock", "ScpiQueryBlock[Single]", "ScpiQueryBlock[Double]"}

RecognisedTags == {"b", "B", "f", "d"}

\* the list format as the specification words it: "<code> - <message>" items,
\* a comma between an item and the rest, nothing for the empty list
Item(rec) == ToString(rec.Code) \o " - " \o rec.Message

RECURSIVE Listed(_)
Listed(recs) ==
    IF recs = <<>> THEN ""
    ELSE IF Len(recs) = 1 THEN Item(recs[1])
    ELSE Item(Head(recs)) \o "," \o Listed(Tail(recs))

UndefinedHeader == [Code |-> -113, Message |-> "Undefined header"]
DataOutOfRange == [Code |-> -222, Message |-> "Data out of range"]

\* the latest call was session operation whose driver request failed
PrimaryFailed == last.op \in SessionOps /\ last.primary # NoExc

\* C1: every session operation invoked while the session is closed fails with
\* a not-connected error and hands no I/O request at all to the driver, the
\* failure handler's error-queue drain included.
C1_ClosedGating ==
    (last.op \in SessionOps /\ ~last.preConnected)
        => /\ last.outcome = "raise"
           /\ last.raised.type = "NotConnected"
           /\ last.calls = <<>>

\* C2: when ScpiQuery or ScpiCommand fails with E (on an open session; the
\* closed session is C1's case) and the drain then fails with E2, the
\* exception the caller receives is E.
C2_RootCauseSurfaced ==
    (last.op \in HandledOps /\ last.preConnected
       /\ last.primary # NoExc /\ last.drainExc # NoExc)
        => last.raised = last.primary

\* C3: whenever the driver request of a session operation fails (on an open
\* session; the closed session is C1's case), the caller gets an exception
\* and a drain of the error queue was requested after the failing request.
C3_DrainOnEveryFailure ==
    (PrimaryFailed /\ last.preConnected)
        => /\ last.outcome = "raise"
           /\ Len(last.calls) = 2
           /\ last.calls[2] = "QueryErrors"

\* C4: when ScpiQuery's driver request fails and the drain returns a
\* non-empty list, the caller gets an Exception whose message is the
\* instrument's name, " errors: " and the formatted list (for one record:
\* its code, " - ", its text), and not the message of the original failure.
C4_QueryFailureEmbedsErrors ==
    (last.op = "ScpiQuery" /\ last.primary # NoExc /\ last.drained
       /\ last.scpi_errors # <<>>)
        => /\ last.outcome = "raise"
           /\ last.raised.type = "Exception"
           /\ last.raised.msg = "PySCPI errors: " \o Listed(last.scpi_errors)
           /\ last.raised.msg # last.primary.msg
           /\ Len(last.scpi_errors) = 1
                => last.raised.msg =
                     "PySCPI errors: " \o ToString(last.scpi_errors[1].Code)
                        \o " - " \o last.scpi_errors[1].Message

C4_Witness ==
    /\ last.op = "ScpiQuery"
    /\ last.primary.type = "TimeoutError"
    /\ last.drained
    /\ last.scpi_errors = <<UndefinedHeader>>
    /\ last.raised.msg = "PySCPI errors: -113 - Undefined header"

C6_TypeDispatch ==
    last.op = "QueryBinaryValues"
        => IF last.datatype \in RecognisedTags
           THEN Len(last.calls) = 1 /\ last.calls[1] \in BlockRequests
           ELSE /\ last.outcome = "raise"
                /\ last.raised.type = "TypeError"
                /\ last.calls = <<>>

C6_Witness ==
    /\ last.op = "QueryBinaryValues"
    /\ last.datatype = "z"
    /\ last.preConnected
    /\ last.raised.type = "TypeError"
    /\ last.calls = <<>>

\* C7: QueryErrors returns the drained records as "<code> - <message>" items
\* joined by commas in drain order, with no leading or trailing comma, and
\* the empty string for an empty list.
C7_ErrorFormatting ==
    last.drained
        => /\ last.errors = Listed(last.scpi_errors)
           /\ last.scpi_errors = <<>> => last.errors = ""
           /\ last.scpi_errors = <<UndefinedHeader, DataOutOfRange>>
                => last.errors = "-113 - Undefined header,-222 - Data out of range"
           /\ last.scpi_errors = <<DataOutOfRange, UndefinedHeader>>
                => last.errors = "-222 - Data out of range,-113 - Undefined header"

C7_Witness ==
    /\ last.op = "QueryErrors"
    /\ last.drained
    /\ last.scpi_errors = <<UndefinedHeader, DataOutOfRange>>
    /\ last.errors = "-113 - Undefined header,-222 - Data out of range"

\* C8: one call of a session operation hands its driver request to the
\* driver at most once; the only other request is one drain, made by
\* ScpiQuery or ScpiCommand after their request has failed.
C8_NoRetry ==
    last.op \in SessionOps
        => /\ Len(last.calls) <= 2
           /\ Len(last.calls) >= 1 =>
                last.calls[1] =
                    CASE last.op = "ScpiQuery" -> "ScpiQuery"
                      [] last.op = "ScpiCommand" -> "ScpiCommand"
                      [] last.op = "WriteBinaryValues" -> "ScpiIEEEBlockCommand"
                      [] last.op = "WaitForOperationComplete" -> "WaitForOperationComplete"
                      [] last.op = "Reset" -> "Reset"
                      [] last.op = "QueryBinaryValues" ->
                            IF last.datatype = "f" THEN "ScpiQueryBlock[Single]"
                            ELSE IF last.datatype = "d" THEN "ScpiQueryBlock[Double]"
                            ELSE "ScpiQueryBlock"
           /\ Len(last.calls) = 2 =>
                /\ last.calls[2] = "QueryErrors"
                /\ last.op \in HandledOps
                /\ last.primary # NoExc

C8_Witness ==
    /\ last.op = "ScpiCommand"
    /\ last.preConnected
    /\ last.primary.type = "TimeoutError"
    /\ last.calls = <<"ScpiCommand", "QueryErrors">>

\* C9: while the session stays open, the address and the timeout the driver
\* holds do not change, whatever properties are assigned and whatever Open
\* and Close calls are made.
C9_EndpointImmutableWhileOpen ==
    [][(io.IsConnected /\ io'.IsConnected)
          => /\ io'.VisaAddress = io.VisaAddress
             /\ io'.IoTimeout = io.IoTimeout]_vars

====
